---- MODULE Spec2Model ----
(***************************************************************************)
(* A model of the clipboard register store of src/backend.rs:              *)
(* ClipboardState (a HashMap of registers mirrored to one JSON file) and   *)
(* ClipboardManager (the store behind one Mutex), called by host threads   *)
(* directly or through the extern "C" entry points.                        *)
(*                                                                         *)
(* Strings are sequences of one-character strings, so that the JSON        *)
(* string escaping of the persisted document is computed, not assumed.     *)
(***************************************************************************)
EXTENDS Naturals, Sequences, FiniteSets, TLC

(***************************************************************************)
(* Bounds of the model.                                                    *)
(***************************************************************************)
\* Longest content string the round-trip specification draws.
MaxStrLen == 2
\* Host threads calling into the library.
NumThreads == 2

QUOTE == "\""
BSLASH == "\\"
\* The character U+0000, and the rest of the escape serde_json writes for it
\* after the backslash.
NUL == "NUL"
U0000 == "u0000"

\* Register names the host passes (the empty name is a legal name).
Names == {<<>>, <<"a">>}
\* Register contents the host passes: the empty string and a lone quote.
Contents == {<<>>, <<QUOTE>>}
\* Shortcut labels the host passes.
Shortcuts == {<<>>, <<"s">>}
Threads == 1..NumThreads
\* Adapter handles (ClipboardManager instances).
Managers == {"m1", "m2"}
\* The holder of a Mutex that is not locked.
NoThread == 0

\* The characters of the round-trip strings.
Chars == {"a", QUOTE, BSLASH}

RECURSIVE StringsUpTo(_)
StringsUpTo(n) ==
    IF n = 0 THEN {<<>>}
    ELSE LET shorter == StringsUpTo(n - 1)
         IN shorter \cup {Append(s, c) : s \in {x \in shorter : Len(x) = n - 1}, c \in Chars}

(***************************************************************************)
(* The store: ClipboardRegister and ClipboardState.registers.              *)
(***************************************************************************)
\* struct ClipboardRegister { content, shortcut }
ClipboardRegister(content, shortcut) == [content |-> content, shortcut |-> shortcut]

\* ClipboardState::new(): an empty HashMap.
EmptyRegisters == <<>>

\* HashMap::contains_key
ContainsKey(regs, name) == name \in DOMAIN regs

\* HashMap::insert (the new value replaces an old one)
Insert(regs, name, reg) ==
    [n \in DOMAIN regs \cup {name} |-> IF n = name THEN reg ELSE regs[n]]

\* HashMap::remove
Remove(regs, name) == [n \in DOMAIN regs \ {name} |-> regs[n]]

\* Every store over the given names, contents and shortcuts.
StoresOver(names, contents, shortcuts) ==
    UNION {[d -> {ClipboardRegister(c, s) : c \in contents, s \in shortcuts}] :
           d \in SUBSET names}

\* The iteration orders a HashMap over these keys can have: every
\* arrangement of the keys (the order depends on the map's random hash seed).
IterOrders(regs) ==
    {o \in [1..Cardinality(DOMAIN regs) -> DOMAIN regs] :
        \A i, j \in DOMAIN o : o[i] = o[j] => i = j}

(***************************************************************************)
(* serde_json: string escaping, the persisted document and its parser.     *)
(***************************************************************************)
\* The text serde_json writes between the quotes of a JSON string.
RECURSIVE EscapeNoBackslash(_)
EscapeNoBackslash(s) ==
    IF s = <<>> THEN <<>>
    ELSE (IF Head(s) = QUOTE THEN <<BSLASH, QUOTE>> ELSE <<Head(s)>>)
         \o EscapeNoBackslash(Tail(s))

RECURSIVE Escape(_)
Escape(s) ==
    IF s = <<>> THEN <<>>
    ELSE (IF Head(s) \in {QUOTE, BSLASH} THEN <<BSLASH, Head(s)>>
          ELSE IF Head(s) = NUL THEN <<BSLASH, U0000>>
          ELSE <<Head(s)>>)
         \o Escape(Tail(s))

\* Whether the text between the quotes of a JSON string parses.
RECURSIVE WellEscaped(_)
WellEscaped(e) ==
    IF e = <<>> THEN TRUE
    ELSE IF Head(e) \in {QUOTE, NUL} THEN FALSE
    ELSE IF Head(e) = BSLASH
         THEN Len(e) >= 2 /\ e[2] \in {QUOTE, BSLASH, U0000} /\ WellEscaped(Tail(Tail(e)))
    ELSE WellEscaped(Tail(e))

\* The string a well-escaped JSON string text stands for.
RECURSIVE Unescape(_)
Unescape(e) ==
    IF e = <<>> THEN <<>>
    ELSE IF Head(e) = BSLASH /\ Len(e) >= 2
         THEN <<IF e[2] = U0000 THEN NUL ELSE e[2]>> \o Unescape(Tail(Tail(e)))
    ELSE <<Head(e)>> \o Unescape(Tail(e))

\* One member of the "registers" object of the document.
Member(name, reg) ==
    [key |-> Escape(name), content |-> Escape(reg.content), shortcut |-> Escape(reg.shortcut)]

\* serde_json::to_string_pretty(&ClipboardState): the members in the map's
\* iteration order, and the closing braces.
ToStringPretty(regs, order) ==
    [members |-> [i \in 1..Len(order) |-> Member(order[i], regs[order[i]])],
     closed |-> TRUE]

\* serde_json::from_str::<ClipboardState>: Err unless the text is a complete
\* document whose strings all parse; members are inserted in document order.
RECURSIVE InsertMembers(_, _)
InsertMembers(regs, members) ==
    IF members = <<>> THEN regs
    ELSE InsertMembers(
            Insert(regs, Unescape(Head(members).key),
                   ClipboardRegister(Unescape(Head(members).content),
                                     Unescape(Head(members).shortcut))),
            Tail(members))

FromStr(text) ==
    IF /\ text.closed
       /\ \A i \in DOMAIN text.members :
             /\ WellEscaped(text.members[i].key)
             /\ WellEscaped(text.members[i].content)
             /\ WellEscaped(text.members[i].shortcut)
    THEN [ok |-> TRUE, registers |-> InsertMembers(EmptyRegisters, text.members)]
    ELSE [ok |-> FALSE, registers |-> EmptyRegisters]

(***************************************************************************)
(* The persisted file and std::fs.                                         *)
(***************************************************************************)
\* A file of zero bytes (not a JSON document).
EmptyText == [members |-> <<>>, closed |-> FALSE]

\* No file at get_config_path().
Missing == [exists |-> FALSE, text |-> EmptyText]

FileWith(text) == [exists |-> TRUE, text |-> text]

\* The first k members of a document, cut before its end.
Truncated(text, k) == [members |-> SubSeq(text.members, 1, k), closed |-> FALSE]

\* A load that reports a file it cannot read as an error.
LoadFromDiskStrict(f) ==
    IF f.exists THEN FromStr(f.text)
    ELSE [ok |-> FALSE, registers |-> EmptyRegisters]

\* A load that takes a file that does not parse for an empty store.
LoadFromDiskLenient(f) ==
    IF f.exists /\ FromStr(f.text).ok THEN FromStr(f.text)
    ELSE [ok |-> TRUE, registers |-> EmptyRegisters]

\* ClipboardState::load_from_disk: a file that cannot be read is an empty
\* store, a file that does not parse is an error.
LoadFromDisk(f) ==
    IF f.exists THEN FromStr(f.text)
    ELSE [ok |-> TRUE, registers |-> EmptyRegisters]

\* ClipboardManager::new: an error of load_from_disk is logged and replaced
\* by an empty store.
ManagerNew(f) ==
    LET loaded == LoadFromDisk(f)
    IN IF loaded.ok THEN loaded.registers ELSE EmptyRegisters

(***************************************************************************)
(* Calls and their results.                                                *)
(***************************************************************************)
MutatingKinds == {"add", "update_content", "update_shortcut", "remove"}

Call(kind, mgr, name, arg) == [kind |-> kind, mgr |-> mgr, name |-> name, arg |-> arg]

NoCall == Call("none", "m1", <<>>, <<>>)

\* The calls a host thread can make on adapter m.
Calls(m) ==
    {Call("add", m, n, s) : n \in Names, s \in Shortcuts}
    \cup {Call("update_content", m, n, c) : n \in Names, c \in Contents}
    \cup {Call("update_shortcut", m, n, s) : n \in Names, s \in Shortcuts}
    \cup {Call("remove", m, n, <<>>) : n \in Names}
    \cup {Call("get", m, n, <<>>) : n \in Names}
    \cup {Call("list", m, <<>>, <<>>)}

\* What a call hands back: a bool, Some(content), None, or the listing.
NoRet == [tag |-> "none", b |-> FALSE, s |-> <<>>, list |-> <<>>]
RetBool(b) == [tag |-> "bool", b |-> b, s |-> <<>>, list |-> <<>>]
RetSome(s) == [tag |-> "some", b |-> FALSE, s |-> s, list |-> <<>>]
RetNone == [tag |-> "null", b |-> FALSE, s |-> <<>>, list |-> <<>>]
RetJson(list) == [tag |-> "json", b |-> FALSE, s |-> <<>>, list |-> list]

\* ClipboardState::get_all_registers followed by serde_json::to_string:
\* one [name, register] pair per register, in the map's iteration order.
AllRegistersJson(regs, order) ==
    [i \in 1..Len(order) |-> Member(order[i], regs[order[i]])]

(***************************************************************************)
(* The methods of ClipboardState run alone, as functions of the store:     *)
(* the result and the store they leave.                                    *)
(***************************************************************************)
AddRegister(regs, name, shortcut) ==
    IF ContainsKey(regs, name)
    THEN [ret |-> RetBool(FALSE), registers |-> regs]
    ELSE [ret |-> RetBool(TRUE),
          registers |-> Insert(regs, name, ClipboardRegister(<<>>, shortcut))]

UpdateRegisterContent(regs, name, content) ==
    IF ContainsKey(regs, name)
    THEN [ret |-> RetBool(TRUE),
          registers |-> [regs EXCEPT ![name].content = content]]
    ELSE [ret |-> RetBool(FALSE), registers |-> regs]

UpdateShortcut(regs, name, shortcut) ==
    IF ContainsKey(regs, name)
    THEN [ret |-> RetBool(TRUE),
          registers |-> [regs EXCEPT ![name].shortcut = shortcut]]
    ELSE [ret |-> RetBool(FALSE), registers |-> regs]

RemoveRegister(regs, name) ==
    IF ContainsKey(regs, name)
    THEN [ret |-> RetBool(TRUE), registers |-> Remove(regs, name)]
    ELSE [ret |-> RetBool(FALSE), registers |-> regs]

GetRegisterContent(regs, name) ==
    IF ContainsKey(regs, name)
    THEN [ret |-> RetSome(regs[name].content), registers |-> regs]
    ELSE [ret |-> RetNone, registers |-> regs]

GetAllRegisters(regs) ==
    [ret |-> RetJson(AllRegistersJson(regs, CHOOSE o \in IterOrders(regs) : TRUE)),
     registers |-> regs]

\* One call run alone on the store.
Sequential(regs, c) ==
    CASE c.kind = "add" -> AddRegister(regs, c.name, c.arg)
      [] c.kind = "update_content" -> UpdateRegisterContent(regs, c.name, c.arg)
      [] c.kind = "update_shortcut" -> UpdateShortcut(regs, c.name, c.arg)
      [] c.kind = "remove" -> RemoveRegister(regs, c.name)
      [] c.kind = "get" -> GetRegisterContent(regs, c.name)
      [] OTHER -> GetAllRegisters(regs)

\* Two results agree: listings agree when they hold the same entries.
SameResult(r1, r2) ==
    /\ r1.tag = r2.tag
    /\ r1.b = r2.b
    /\ r1.s = r2.s
    /\ Len(r1.list) = Len(r2.list)
    /\ {r1.list[i] : i \in DOMAIN r1.list} = {r2.list[i] : i \in DOMAIN r2.list}

(***************************************************************************)
(* The C interface: pointers in, integers and string handles out.          *)
(***************************************************************************)
\* Bytes that occur in no UTF-8 text.
BadBytes == {"xC0", "xFF"}

\* A pointer argument: null, or the address of a C string of these bytes.
NullPtr == [null |-> TRUE, bytes |-> <<>>]
CStr(bytes) == [null |-> FALSE, bytes |-> bytes]

\* The adapter pointer that is null.
NullMgr == "null"

\* Whether CStr::to_str returns Ok.
IsUtf8(bytes) == \A i \in DOMAIN bytes : bytes[i] \notin BadBytes

\* A decoding that keeps the bytes of a string that is not UTF-8.
ToStrLossy(p) == p.bytes

\* `CStr::from_ptr(p).to_str().unwrap_or("")`
ToStr(p) == IF IsUtf8(p.bytes) THEN p.bytes ELSE <<>>

\* The arguments of an entry point: the adapter pointer and the string
\* pointers (NullPtr stands for a parameter the entry point does not have).
Args(kind, mgr, name, arg) == [kind |-> kind, mgr |-> mgr, name |-> name, arg |-> arg]

NoArgs == Args("none", NullMgr, NullPtr, NullPtr)

\* The entry points with a `name` parameter, and with a second string.
TakesName(kind) == kind # "list"
TakesArg(kind) == kind \in {"add", "update_content", "update_shortcut"}

\* The `assert!(!p.is_null())` lines at the head of an entry point all pass.
Asserted(a) ==
    /\ a.mgr # NullMgr
    /\ TakesName(a.kind) => ~a.name.null
    /\ TakesArg(a.kind) => ~a.arg.null

\* The method call an entry point makes with its decoded arguments.
Decode(a) ==
    Call(a.kind, a.mgr,
         IF TakesName(a.kind) THEN ToStr(a.name) ELSE <<>>,
         IF TakesArg(a.kind) THEN ToStr(a.arg) ELSE <<>>)

\* What an entry point hands to the host: a c_int, a string handle
\* (CString::into_raw) or a null pointer.
NoOut == [tag |-> "none", n |-> 0, s |-> <<>>, list |-> <<>>]
OutInt(n) == [tag |-> "int", n |-> n, s |-> <<>>, list |-> <<>>]
OutString(s) == [tag |-> "string", n |-> 0, s |-> s, list |-> <<>>]
OutNull == [tag |-> "nullptr", n |-> 0, s |-> <<>>, list |-> <<>>]
OutJson(list) == [tag |-> "json", n |-> 0, s |-> <<>>, list |-> list]

\* CString::new(s) returns Err: the text holds the byte 0.
HasNul(s) == \E i \in DOMAIN s : s[i] = NUL

\* The value an entry point makes of the result r of the method:
\* `if result { 1 } else { 0 }`, and for a string CString::new(..) with
\* `Err(_) => ptr::null_mut()`.
ToCResult(r) ==
    CASE r.tag = "bool" -> OutInt(IF r.b THEN 1 ELSE 0)
      [] r.tag = "some" -> IF HasNul(r.s) THEN OutNull ELSE OutString(r.s)
      [] r.tag = "json" ->
            IF \E i \in DOMAIN r.list :
                  HasNul(r.list[i].key) \/ HasNul(r.list[i].content)
                  \/ HasNul(r.list[i].shortcut)
            THEN OutNull ELSE OutJson(r.list)
      [] OTHER -> OutNull

\* Whether the host holds a string it has to release.
IsHandle(o) == o.tag \in {"string", "json"}

(***************************************************************************)
(* State.                                                                  *)
(***************************************************************************)
VARIABLES
    file,       \* the persisted file ~/.clipboard_manager_config.json
    alive,      \* the adapter handles constructed and not destroyed
    registers,  \* registers[m]: ClipboardState.registers of adapter m
    lock,       \* lock[m]: the thread holding adapter m's Mutex, or NoThread
    pc,         \* pc[t]: where thread t stands in its call
    op,         \* op[t]: the call thread t is running
    ret,        \* ret[t]: the value the call of thread t returns
    json,       \* json[t]: the text save_to_disk serialized (local `json`)
    io,         \* io[t]: the Result of save_to_disk in the call of thread t
    pre,        \* history: registers of the adapter when t took the lock
    hpre,       \* history: hist of the adapter when t took the lock
    shadow,     \* history: the calls begun so far, run one at a time
    expect,     \* history: what the call of t returns when run in that order
    hist,       \* history: hist[m], what was added, removed and last written
    everTrue,   \* history: adapters with a mutating call that returned true
    rt,         \* the round-trip run: its phase, first document, load result
    process,    \* "running", or "aborted" by a failed assertion
    args,       \* args[t]: the pointers thread t passed to its entry point
    out         \* out[t]: what the entry point hands to the host thread t

vars == <<file, alive, registers, lock, pc, op, ret, json, io, pre, hpre, shadow,
          expect, hist, everTrue, rt, process, args, out>>

local == <<ret, json, io>>
history == <<hist, everTrue>>
host == <<process, args, out>>

RtOff ==
    [phase |-> "off", store |-> EmptyRegisters, doc |-> EmptyText,
     loadOk |-> FALSE, loaded |-> EmptyRegisters]

\* What load_from_disk found in file f.
StartOf(f) ==
    IF ~f.exists THEN "missing"
    ELSE IF FromStr(f.text).ok THEN "document" ELSE "unparseable"

\* The history of a store just loaded: its registers count as added, with
\* the content they were loaded with as the last content written.
HistOf(regs, f) ==
    [start |-> StartOf(f), loadOk |-> LoadFromDisk(f).ok,
     live |-> DOMAIN regs, removed |-> {}, dirty |-> {},
     last |-> [n \in Names |-> IF n \in DOMAIN regs THEN regs[n].content ELSE <<>>]]

\* The files a process can find at start: none, an empty one, or a document
\* saved by an earlier run.
InitFiles ==
    {Missing, FileWith(EmptyText)}
    \cup UNION {{FileWith(ToStringPretty(s, o)) : o \in IterOrders(s)} :
                  s \in StoresOver(Names, Contents, Shortcuts)}

\* Everything but the file and the store of adapter "m1", which the host
\* constructs first (clipboard_manager_new).
InitRest ==
    /\ alive = {"m1"}
    /\ lock = [m \in Managers |-> NoThread]
    /\ pc = [t \in Threads |-> "idle"]
    /\ op = [t \in Threads |-> NoCall]
    /\ ret = [t \in Threads |-> NoRet]
    /\ json = [t \in Threads |-> EmptyText]
    /\ io = [t \in Threads |-> "none"]
    /\ pre = [t \in Threads |-> EmptyRegisters]
    /\ hpre = [t \in Threads |-> HistOf(EmptyRegisters, Missing)]
    /\ shadow = registers
    /\ expect = [t \in Threads |-> NoRet]
    /\ hist = [m \in Managers |-> HistOf(registers[m], file)]
    /\ everTrue = {}
    /\ process = "running"
    /\ args = [t \in Threads |-> NoArgs]
    /\ out = [t \in Threads |-> NoOut]

Init ==
    /\ file \in InitFiles
    /\ registers = [m \in Managers |-> IF m = "m1" THEN ManagerNew(file) ELSE EmptyRegisters]
    /\ rt = RtOff
    /\ InitRest

(***************************************************************************)
(* ClipboardManager: every method takes the Mutex first.                   *)
(***************************************************************************)
\* A mutex that lets a second thread in.
LockNoWait(t, c) ==
    /\ pc[t] = "idle"
    /\ c.mgr \in alive
    /\ lock' = [lock EXCEPT ![c.mgr] = t]
    /\ pc' = [pc EXCEPT ![t] = "body"]
    /\ op' = [op EXCEPT ![t] = c]
    /\ pre' = [pre EXCEPT ![t] = registers[c.mgr]]
    /\ hpre' = [hpre EXCEPT ![t] = hist[c.mgr]]
    /\ shadow' = [shadow EXCEPT ![c.mgr] = Sequential(shadow[c.mgr], c).registers]
    /\ expect' = [expect EXCEPT ![t] = Sequential(shadow[c.mgr], c).ret]
    /\ UNCHANGED <<file, alive, registers, local, history, rt, host>>

\* self.state.lock().unwrap(): thread t enters call c once the Mutex is free.
Lock(t, c) ==
    /\ pc[t] = "idle"
    /\ c.mgr \in alive
    /\ lock[c.mgr] = NoThread
    /\ lock' = [lock EXCEPT ![c.mgr] = t]
    /\ pc' = [pc EXCEPT ![t] = "body"]
    /\ op' = [op EXCEPT ![t] = c]
    /\ pre' = [pre EXCEPT ![t] = registers[c.mgr]]
    /\ hpre' = [hpre EXCEPT ![t] = hist[c.mgr]]
    /\ shadow' = [shadow EXCEPT ![c.mgr] = Sequential(shadow[c.mgr], c).registers]
    /\ expect' = [expect EXCEPT ![t] = Sequential(shadow[c.mgr], c).ret]
    /\ UNCHANGED <<file, alive, registers, local, history, rt, host>>

\* The method has its result r; the MutexGuard is still held.
Finish(t, r) ==
    /\ pc' = [pc EXCEPT ![t] = "unlock"]
    /\ ret' = [ret EXCEPT ![t] = r]

unlocked == <<file, alive, lock, op, pre, hpre, shadow, expect, rt, host>>

(***************************************************************************)
(* ClipboardState: the steps of each method.                               *)
(***************************************************************************)
\* An add that does not look for the name first.
AddCheckOverwrite(t) ==
    /\ pc[t] = "body" /\ op[t].kind = "add"
    /\ pc' = [pc EXCEPT ![t] = "insert"]
    /\ UNCHANGED <<unlocked, registers, local, history>>

\* add_register, `if self.registers.contains_key(&name) { return false; }`
AddCheck(t) ==
    /\ pc[t] = "body" /\ op[t].kind = "add"
    /\ IF ContainsKey(registers[op[t].mgr], op[t].name)
       THEN Finish(t, RetBool(FALSE))
       ELSE pc' = [pc EXCEPT ![t] = "insert"] /\ UNCHANGED ret
    /\ UNCHANGED <<unlocked, registers, json, io, history>>

\* The history after a register was added.
Added(h, name) ==
    [h EXCEPT !.live = @ \cup {name}, !.removed = @ \ {name}, !.dirty = @ \ {name},
              !.last[name] = <<>>]

\* The history after a register was removed.
Removed(h, name, reg) ==
    [h EXCEPT !.live = @ \ {name}, !.removed = @ \cup {name},
              !.dirty = IF reg.content # <<>> THEN @ \cup {name} ELSE @,
              !.last[name] = <<>>]

\* An add that stores its arguments in the wrong fields.
AddInsertSwapped(t) ==
    /\ pc[t] = "insert"
    /\ registers' = [registers EXCEPT ![op[t].mgr] =
            Insert(@, op[t].name, ClipboardRegister(op[t].arg, <<>>))]
    /\ hist' = [hist EXCEPT ![op[t].mgr] = Added(@, op[t].name)]
    /\ pc' = [pc EXCEPT ![t] = "save"]
    /\ UNCHANGED <<unlocked, local, everTrue>>

\* add_register, `self.registers.insert(name, ClipboardRegister { .. })`
AddInsert(t) ==
    /\ pc[t] = "insert"
    /\ registers' = [registers EXCEPT ![op[t].mgr] =
            Insert(@, op[t].name, ClipboardRegister(<<>>, op[t].arg))]
    /\ hist' = [hist EXCEPT ![op[t].mgr] = Added(@, op[t].name)]
    /\ pc' = [pc EXCEPT ![t] = "save"]
    /\ UNCHANGED <<unlocked, local, everTrue>>

\* An update that creates the register it does not find.
DoUpdateContentUpsert(t) ==
    /\ pc[t] = "body" /\ op[t].kind = "update_content"
    /\ registers' = [registers EXCEPT ![op[t].mgr] =
            Insert(@, op[t].name,
                   ClipboardRegister(op[t].arg,
                        IF ContainsKey(@, op[t].name) THEN @[op[t].name].shortcut ELSE <<>>))]
    /\ hist' = [hist EXCEPT ![op[t].mgr].last[op[t].name] = op[t].arg]
    /\ pc' = [pc EXCEPT ![t] = "save"]
    /\ UNCHANGED <<unlocked, local, everTrue>>

\* update_register_content, `if let Some(register) = self.registers.get_mut(name)
\* { register.content = content; .. }`, else false
DoUpdateContent(t) ==
    /\ pc[t] = "body" /\ op[t].kind = "update_content"
    /\ IF ContainsKey(registers[op[t].mgr], op[t].name)
       THEN /\ registers' = [registers EXCEPT ![op[t].mgr][op[t].name].content = op[t].arg]
            /\ hist' = [hist EXCEPT ![op[t].mgr].last[op[t].name] = op[t].arg]
            /\ pc' = [pc EXCEPT ![t] = "save"]
            /\ UNCHANGED ret
       ELSE Finish(t, RetBool(FALSE)) /\ UNCHANGED <<registers, hist>>
    /\ UNCHANGED <<unlocked, json, io, everTrue>>

\* An update of the shortcut that returns true without saving.
DoUpdateShortcutNoSave(t) ==
    /\ pc[t] = "body" /\ op[t].kind = "update_shortcut"
    /\ IF ContainsKey(registers[op[t].mgr], op[t].name)
       THEN /\ registers' = [registers EXCEPT ![op[t].mgr][op[t].name].shortcut = op[t].arg]
            /\ Finish(t, RetBool(TRUE))
       ELSE Finish(t, RetBool(FALSE)) /\ UNCHANGED registers
    /\ UNCHANGED <<unlocked, json, io, history>>

\* An update of the shortcut that replaces the register by a fresh one.
DoUpdateShortcutReset(t) ==
    /\ pc[t] = "body" /\ op[t].kind = "update_shortcut"
    /\ IF ContainsKey(registers[op[t].mgr], op[t].name)
       THEN /\ registers' = [registers EXCEPT ![op[t].mgr][op[t].name] =
                                ClipboardRegister(<<>>, op[t].arg)]
            /\ pc' = [pc EXCEPT ![t] = "save"]
            /\ UNCHANGED ret
       ELSE Finish(t, RetBool(FALSE)) /\ UNCHANGED registers
    /\ UNCHANGED <<unlocked, json, io, history>>

\* update_shortcut, `if let Some(register) = self.registers.get_mut(name)
\* { register.shortcut = shortcut; .. }`, else false
DoUpdateShortcut(t) ==
    /\ pc[t] = "body" /\ op[t].kind = "update_shortcut"
    /\ IF ContainsKey(registers[op[t].mgr], op[t].name)
       THEN /\ registers' = [registers EXCEPT ![op[t].mgr][op[t].name].shortcut = op[t].arg]
            /\ pc' = [pc EXCEPT ![t] = "save"]
            /\ UNCHANGED ret
       ELSE Finish(t, RetBool(FALSE)) /\ UNCHANGED registers
    /\ UNCHANGED <<unlocked, json, io, history>>

\* A remove that empties the map.
DoRemoveAll(t) ==
    /\ pc[t] = "body" /\ op[t].kind = "remove"
    /\ IF ContainsKey(registers[op[t].mgr], op[t].name)
       THEN /\ registers' = [registers EXCEPT ![op[t].mgr] = EmptyRegisters]
            /\ hist' = [hist EXCEPT ![op[t].mgr] =
                            Removed(@, op[t].name, registers[op[t].mgr][op[t].name])]
            /\ pc' = [pc EXCEPT ![t] = "save"]
            /\ UNCHANGED ret
       ELSE Finish(t, RetBool(FALSE)) /\ UNCHANGED <<registers, hist>>
    /\ UNCHANGED <<unlocked, json, io, everTrue>>

\* A remove that reports the register removed and leaves it in the map.
DoRemoveKeeps(t) ==
    /\ pc[t] = "body" /\ op[t].kind = "remove"
    /\ IF ContainsKey(registers[op[t].mgr], op[t].name)
       THEN /\ hist' = [hist EXCEPT ![op[t].mgr] =
                            Removed(@, op[t].name, registers[op[t].mgr][op[t].name])]
            /\ pc' = [pc EXCEPT ![t] = "save"]
            /\ UNCHANGED <<ret, registers>>
       ELSE Finish(t, RetBool(FALSE)) /\ UNCHANGED <<registers, hist>>
    /\ UNCHANGED <<unlocked, json, io, everTrue>>

\* remove_register, `if self.registers.remove(name).is_some() { .. }`, else false
DoRemove(t) ==
    /\ pc[t] = "body" /\ op[t].kind = "remove"
    /\ IF ContainsKey(registers[op[t].mgr], op[t].name)
       THEN /\ registers' = [registers EXCEPT ![op[t].mgr] = Remove(@, op[t].name)]
            /\ hist' = [hist EXCEPT ![op[t].mgr] =
                            Removed(@, op[t].name, registers[op[t].mgr][op[t].name])]
            /\ pc' = [pc EXCEPT ![t] = "save"]
            /\ UNCHANGED ret
       ELSE Finish(t, RetBool(FALSE)) /\ UNCHANGED <<registers, hist>>
    /\ UNCHANGED <<unlocked, json, io, everTrue>>

\* get_register_content, `self.registers.get(name).map(|r| r.content.clone())`
DoGet(t) ==
    /\ pc[t] = "body" /\ op[t].kind = "get"
    /\ Finish(t, IF ContainsKey(registers[op[t].mgr], op[t].name)
                 THEN RetSome(registers[op[t].mgr][op[t].name].content)
                 ELSE RetNone)
    /\ UNCHANGED <<unlocked, registers, json, io, history>>

\* ClipboardManager::get_all_registers: the pairs in the map's iteration
\* order, as JSON.
DoList(t) ==
    /\ pc[t] = "body" /\ op[t].kind = "list"
    /\ \E order \in IterOrders(registers[op[t].mgr]) :
          Finish(t, RetJson(AllRegistersJson(registers[op[t].mgr], order)))
    /\ UNCHANGED <<unlocked, registers, json, io, history>>

(***************************************************************************)
(* save_to_disk, called by every method that changed the store.            *)
(***************************************************************************)
\* A save that serializes the register the call names and no other.
SerializeChanged(t) ==
    /\ pc[t] = "save"
    /\ LET regs == registers[op[t].mgr]
           only == [n \in DOMAIN regs \cap {op[t].name} |-> regs[n]]
       IN \E order \in IterOrders(only) :
             json' = [json EXCEPT ![t] = ToStringPretty(only, order)]
    /\ pc' = [pc EXCEPT ![t] = "create"]
    /\ UNCHANGED <<unlocked, registers, ret, io, history>>

\* `serde_json::to_string_pretty(self)`: the whole store, in the map's
\* iteration order.
Serialize(t) ==
    /\ pc[t] = "save"
    /\ \E order \in IterOrders(registers[op[t].mgr]) :
          json' = [json EXCEPT ![t] = ToStringPretty(registers[op[t].mgr], order)]
    /\ pc' = [pc EXCEPT ![t] = "create"]
    /\ UNCHANGED <<unlocked, registers, ret, io, history>>

\* A save whose failure undoes the change and is reported to the caller.
SavedOrRolledBack(t, result) ==
    /\ io' = [io EXCEPT ![t] = result]
    /\ Finish(t, RetBool(result = "Ok"))
    /\ registers' = [registers EXCEPT ![op[t].mgr] = IF result = "Ok" THEN @ ELSE pre[t]]

\* `self.save_to_disk().unwrap_or_else(|e| eprintln!(..)); true`: the result
\* of the save is logged and dropped, the method returns true.
Saved(t, result) ==
    /\ io' = [io EXCEPT ![t] = result]
    /\ Finish(t, RetBool(TRUE))
    /\ UNCHANGED registers

\* fs::write, opening the file: it is created, or emptied when it exists.
FsCreate(t) ==
    /\ pc[t] = "create"
    /\ file' = FileWith(EmptyText)
    /\ pc' = [pc EXCEPT ![t] = "write"]
    /\ UNCHANGED <<alive, lock, op, pre, hpre, shadow, expect, rt, host, registers, local, history>>

\* fs::write fails to open the file: Err, the file is as it was.
FsCreateErr(t) ==
    /\ pc[t] = "create"
    /\ Saved(t, "Err")
    /\ UNCHANGED <<unlocked, json, history>>

\* fs::write, writing the text: the file holds the whole document.
FsWriteAll(t) ==
    /\ pc[t] = "write"
    /\ file' = FileWith(json[t])
    /\ Saved(t, "Ok")
    /\ UNCHANGED <<alive, lock, op, pre, hpre, shadow, expect, rt, host, json, history>>

\* fs::write fails while writing: Err, the file holds a cut document.
FsWriteErr(t) ==
    /\ pc[t] = "write"
    /\ \E k \in 0..Len(json[t].members) : file' = FileWith(Truncated(json[t], k))
    /\ Saved(t, "Err")
    /\ UNCHANGED <<alive, lock, op, pre, hpre, shadow, expect, rt, host, json, history>>

\* The method returns: the MutexGuard is dropped and the caller has ret[t].
Unlock(t) ==
    /\ pc[t] = "unlock"
    /\ lock' = [lock EXCEPT ![op[t].mgr] = NoThread]
    /\ everTrue' = IF op[t].kind \in MutatingKinds /\ ret[t].b
                   THEN everTrue \cup {op[t].mgr} ELSE everTrue
    /\ pc' = [pc EXCEPT ![t] = "idle"]
    /\ op' = [op EXCEPT ![t] = NoCall]
    /\ ret' = [ret EXCEPT ![t] = NoRet]
    /\ json' = [json EXCEPT ![t] = EmptyText]
    /\ io' = [io EXCEPT ![t] = "none"]
    /\ pre' = [pre EXCEPT ![t] = EmptyRegisters]
    /\ hpre' = [hpre EXCEPT ![t] = HistOf(EmptyRegisters, Missing)]
    /\ expect' = [expect EXCEPT ![t] = NoRet]
    /\ UNCHANGED <<file, alive, registers, shadow, hist, rt, host>>

(***************************************************************************)
(* The extern "C" entry points.                                            *)
(***************************************************************************)
\* An entry point that takes a null string for the empty string.
FfiEnterNullAsEmpty(t, a) ==
    /\ pc[t] = "idle"
    /\ out[t] = NoOut
    /\ a.mgr = NullMgr \/ a.mgr \in alive
    /\ args' = [args EXCEPT ![t] = a]
    /\ IF a.mgr # NullMgr
       THEN /\ pc' = [pc EXCEPT ![t] = "wait"]
            /\ op' = [op EXCEPT ![t] = Decode(a)]
            /\ UNCHANGED process
       ELSE /\ pc' = [pc EXCEPT ![t] = "panicked"]
            /\ process' \in {"running", "aborted"}
            /\ UNCHANGED op
    /\ UNCHANGED <<file, alive, registers, lock, local, pre, hpre, shadow, expect,
                   history, rt, out>>

\* Thread t calls an entry point with arguments a: the assertions, then the
\* decoding of the strings, then the call of the method.  A failed
\* assertion panics: the process aborts, or the panic unwinds out of the
\* entry point and the thread never gets a value.
FfiEnter(t, a) ==
    /\ pc[t] = "idle"
    /\ out[t] = NoOut
    /\ a.mgr = NullMgr \/ a.mgr \in alive
    /\ args' = [args EXCEPT ![t] = a]
    /\ IF Asserted(a)
       THEN /\ pc' = [pc EXCEPT ![t] = "wait"]
            /\ op' = [op EXCEPT ![t] = Decode(a)]
            /\ UNCHANGED process
       ELSE /\ pc' = [pc EXCEPT ![t] = "panicked"]
            /\ process' \in {"running", "aborted"}
            /\ UNCHANGED op
    /\ UNCHANGED <<file, alive, registers, lock, local, pre, hpre, shadow, expect,
                   history, rt, out>>

\* self.state.lock().unwrap() of the method the entry point called: the
\* thread waits until the Mutex of its adapter is free.
Acquire(t) ==
    /\ pc[t] = "wait"
    /\ lock[op[t].mgr] = NoThread
    /\ lock' = [lock EXCEPT ![op[t].mgr] = t]
    /\ pc' = [pc EXCEPT ![t] = "body"]
    /\ pre' = [pre EXCEPT ![t] = registers[op[t].mgr]]
    /\ hpre' = [hpre EXCEPT ![t] = hist[op[t].mgr]]
    /\ shadow' = [shadow EXCEPT ![op[t].mgr] = Sequential(shadow[op[t].mgr], op[t]).registers]
    /\ expect' = [expect EXCEPT ![t] = Sequential(shadow[op[t].mgr], op[t]).ret]
    /\ UNCHANGED <<file, alive, registers, op, local, history, rt, host>>

\* A method that keeps the Mutex locked when it returns false.
FfiUnlockLeak(t) ==
    /\ pc[t] = "unlock"
    /\ lock' = [lock EXCEPT ![op[t].mgr] = IF ret[t] = RetBool(FALSE) THEN @ ELSE NoThread]
    /\ everTrue' = IF op[t].kind \in MutatingKinds /\ ret[t].b
                   THEN everTrue \cup {op[t].mgr} ELSE everTrue
    /\ out' = [out EXCEPT ![t] = ToCResult(ret[t])]
    /\ pc' = [pc EXCEPT ![t] = "return"]
    /\ UNCHANGED <<file, alive, registers, op, local, pre, hpre, shadow, expect, hist,
                   rt, process, args>>

\* The method returns (the MutexGuard is dropped) and the entry point
\* converts its result.
FfiUnlock(t) ==
    /\ pc[t] = "unlock"
    /\ lock' = [lock EXCEPT ![op[t].mgr] = NoThread]
    /\ everTrue' = IF op[t].kind \in MutatingKinds /\ ret[t].b
                   THEN everTrue \cup {op[t].mgr} ELSE everTrue
    /\ out' = [out EXCEPT ![t] = ToCResult(ret[t])]
    /\ pc' = [pc EXCEPT ![t] = "return"]
    /\ UNCHANGED <<file, alive, registers, op, local, pre, hpre, shadow, expect, hist,
                   rt, process, args>>

\* The entry point returns out[t] to the host; a string handle stays with
\* the host until it is released.
FfiReturn(t) ==
    /\ pc[t] = "return"
    /\ pc' = [pc EXCEPT ![t] = "idle"]
    /\ op' = [op EXCEPT ![t] = NoCall]
    /\ args' = [args EXCEPT ![t] = NoArgs]
    /\ out' = [out EXCEPT ![t] = IF IsHandle(@) THEN @ ELSE NoOut]
    /\ ret' = [ret EXCEPT ![t] = NoRet]
    /\ json' = [json EXCEPT ![t] = EmptyText]
    /\ io' = [io EXCEPT ![t] = "none"]
    /\ pre' = [pre EXCEPT ![t] = EmptyRegisters]
    /\ hpre' = [hpre EXCEPT ![t] = HistOf(EmptyRegisters, Missing)]
    /\ expect' = [expect EXCEPT ![t] = NoRet]
    /\ UNCHANGED <<file, alive, registers, lock, shadow, history, rt, process>>

\* clipboard_manager_free_string(s) with the handle the thread holds.
FreeString(t) ==
    /\ pc[t] = "idle"
    /\ IsHandle(out[t])
    /\ out' = [out EXCEPT ![t] = NoOut]
    /\ UNCHANGED <<file, alive, registers, lock, pc, op, local, pre, hpre, shadow,
                   expect, history, rt, process, args>>

\* A construction that writes an empty document when it finds no file.
ManagerCreateWrites(m) ==
    /\ m \notin alive
    /\ alive' = alive \cup {m}
    /\ registers' = [registers EXCEPT ![m] = ManagerNew(file)]
    /\ shadow' = [shadow EXCEPT ![m] = ManagerNew(file)]
    /\ hist' = [hist EXCEPT ![m] = HistOf(ManagerNew(file), file)]
    /\ file' = IF file.exists THEN file
               ELSE FileWith(ToStringPretty(EmptyRegisters, <<>>))
    /\ UNCHANGED <<lock, pc, op, local, pre, hpre, expect, everTrue, rt, host>>

\* clipboard_manager_new: ClipboardManager::new() in a Box; the adapter has
\* a store of its own, loaded from the file, behind a Mutex of its own.
ManagerCreate(m) ==
    /\ m \notin alive
    /\ alive' = alive \cup {m}
    /\ registers' = [registers EXCEPT ![m] = ManagerNew(file)]
    /\ shadow' = [shadow EXCEPT ![m] = ManagerNew(file)]
    /\ hist' = [hist EXCEPT ![m] = HistOf(ManagerNew(file), file)]
    /\ UNCHANGED <<file, lock, pc, op, local, pre, hpre, expect, everTrue, rt, host>>

\* clipboard_manager_destroy of an adapter no thread is calling: the Box is
\* dropped, and its store with it.
ManagerDestroy(m) ==
    /\ m \in alive
    /\ \A t \in Threads : pc[t] \in {"idle", "panicked"} \/ op[t].mgr # m
    /\ alive' = alive \ {m}
    /\ registers' = [registers EXCEPT ![m] = EmptyRegisters]
    /\ shadow' = [shadow EXCEPT ![m] = EmptyRegisters]
    /\ hist' = [hist EXCEPT ![m] = HistOf(EmptyRegisters, Missing)]
    /\ everTrue' = everTrue \ {m}
    /\ UNCHANGED <<file, lock, pc, op, local, pre, hpre, expect, rt, host>>

(***************************************************************************)
(* Specifications.                                                         *)
(***************************************************************************)
\* A step of a call that does not touch the file.
MemoryStep(t) ==
    \/ \E c \in Calls("m1") : Lock(t, c)
    \/ AddCheck(t)
    \/ AddInsert(t)
    \/ DoUpdateContent(t)
    \/ DoUpdateShortcut(t)
    \/ DoRemove(t)
    \/ DoGet(t)
    \/ DoList(t)
    \/ Serialize(t)
    \/ Unlock(t)

Next ==
    \E t \in Threads :
        \/ MemoryStep(t)
        \/ FsCreate(t)
        \/ FsWriteAll(t)
        \/ FsCreateErr(t)
        \/ FsWriteErr(t)

\* Host threads calling one adapter; a write to the file can fail.
Spec == Init /\ [][Next]_vars

NextOk ==
    \E t \in Threads :
        \/ MemoryStep(t)
        \/ FsCreate(t)
        \/ FsWriteAll(t)

\* The same, with every write to the file succeeding.
SpecOk == Init /\ [][NextOk]_vars

(***************************************************************************)
(* The round trip of save_to_disk and load_from_disk on one store.         *)
(***************************************************************************)
\* The file after a save_to_disk of `regs` that returns Ok.
SaveToDisk(regs, order) == FileWith(ToStringPretty(regs, order))

InitRT ==
    /\ file = Missing
    /\ registers = [m \in Managers |-> EmptyRegisters]
    /\ \E s \in StoresOver(Names, StringsUpTo(MaxStrLen), Shortcuts) :
          rt = [RtOff EXCEPT !.phase = "start", !.store = s]
    /\ InitRest

\* rt.store.save_to_disk() returns Ok.
RtSave ==
    /\ rt.phase = "start"
    /\ \E order \in IterOrders(rt.store) :
          /\ file' = SaveToDisk(rt.store, order)
          /\ rt' = [rt EXCEPT !.phase = "saved", !.doc = file'.text]
    /\ UNCHANGED <<alive, registers, lock, pc, op, local, pre, hpre, shadow, expect, history, host>>

\* ClipboardState::load_from_disk()
RtLoad ==
    /\ rt.phase = "saved"
    /\ rt' = [rt EXCEPT !.phase = "loaded",
                        !.loadOk = LoadFromDisk(file).ok,
                        !.loaded = LoadFromDisk(file).registers]
    /\ UNCHANGED <<file, alive, registers, lock, pc, op, local, pre, hpre, shadow, expect, history, host>>

\* The loaded store is saved in turn; its map has its own iteration order.
RtSaveAgain ==
    /\ rt.phase = "loaded"
    /\ rt.loadOk
    /\ \E order \in IterOrders(rt.loaded) : file' = SaveToDisk(rt.loaded, order)
    /\ rt' = [rt EXCEPT !.phase = "resaved"]
    /\ UNCHANGED <<alive, registers, lock, pc, op, local, pre, hpre, shadow, expect, history, host>>

NextRT == RtSave \/ RtLoad \/ RtSaveAgain

\* One store saved, loaded and saved again.
SpecRT == InitRT /\ [][NextRT]_vars

(***************************************************************************)
(* The host: threads that call the entry points.                           *)
(***************************************************************************)
\* The entry-point calls on adapter pointer m with these name pointers and
\* these pointers for the shortcut or content.
EntryArgs(m, names, texts) ==
    {Args(k, m, n, x) : k \in {"add", "update_content", "update_shortcut"},
                        n \in names, x \in texts}
    \cup {Args(k, m, n, NullPtr) : k \in {"remove", "get"}, n \in names}
    \cup {Args("list", m, NullPtr, NullPtr)}

\* A step of the method an entry point called, every write succeeding.
MethodStep(t) ==
    \/ Acquire(t)
    \/ AddCheck(t)
    \/ AddInsert(t)
    \/ DoUpdateContent(t)
    \/ DoUpdateShortcut(t)
    \/ DoRemove(t)
    \/ DoGet(t)
    \/ DoList(t)
    \/ Serialize(t)
    \/ FsCreate(t)
    \/ FsWriteAll(t)

\* A write to the file that fails.
FailStep(t) == FsCreateErr(t) \/ FsWriteErr(t)

\* The name pointers of the marshalling runs: a name and two byte strings
\* that are not UTF-8; the text pointers likewise.
NamePtrs == {CStr(<<"a">>), CStr(<<"xC0">>), CStr(<<"xFF">>)}
TextPtrs == {CStr(<<"s">>), CStr(<<"xFF">>)}

\* The calls of the marshalling runs: on the adapter, and with a null
\* adapter, a null name, or a null shortcut or content.
HostArgs ==
    EntryArgs("m1", NamePtrs, TextPtrs)
    \cup EntryArgs(NullMgr, {CStr(<<"a">>)}, {CStr(<<"s">>)})
    \cup EntryArgs("m1", {NullPtr}, {CStr(<<"s">>)})
    \cup EntryArgs("m1", {CStr(<<"a">>)}, {NullPtr})

\* The files of the marshalling runs: none, or a document of another
\* writer whose content holds the character U+0000 (in JSON, "\u0000").
HostFiles ==
    {Missing,
     FileWith(ToStringPretty(<<"a">> :> ClipboardRegister(<<NUL>>, <<>>), <<<<"a">>>>)),
     FileWith(ToStringPretty(<<>> :> ClipboardRegister(<<"s", NUL>>, <<"s">>), <<<<>>>>))}

InitHost ==
    /\ file \in HostFiles
    /\ registers = [m \in Managers |-> IF m = "m1" THEN ManagerNew(file) ELSE EmptyRegisters]
    /\ rt = RtOff
    /\ InitRest

\* The other threads are outside the library and hold no string of it.
Alone(t) ==
    \A u \in Threads \ {t} : pc[u] \in {"idle", "panicked"} /\ out[u] = NoOut

NextHost ==
    /\ process = "running"
    /\ \E t \in Threads :
          \/ \E a \in HostArgs : Alone(t) /\ FfiEnter(t, a)
          \/ MethodStep(t)
          \/ FfiUnlock(t)
          \/ FfiReturn(t)
          \/ FreeString(t)

\* Host threads that call the entry points of one adapter one at a time,
\* with pointers of every kind.
SpecHost == InitHost /\ [][NextHost]_vars

\* The calls of the runs with two adapters and of the fair runs.
FewArgs(m) ==
    {Args("add", m, CStr(<<"a">>), CStr(<<"s">>)),
     Args("update_content", m, CStr(<<"a">>), CStr(<<"s">>)),
     Args("update_shortcut", m, CStr(<<"a">>), CStr(<<"s">>)),
     Args("remove", m, CStr(<<"a">>), NullPtr),
     Args("get", m, CStr(<<"a">>), NullPtr),
     Args("list", m, NullPtr, NullPtr)}

\* The files of those runs: none (a fresh install) or an empty one.
FewFiles == {Missing, FileWith(EmptyText)}

\* The host has released every string it was handed.
AllReleased == \A u \in Threads : out[u] = NoOut

InitFew ==
    /\ file \in FewFiles
    /\ registers = [m \in Managers |-> IF m = "m1" THEN ManagerNew(file) ELSE EmptyRegisters]
    /\ rt = RtOff
    /\ InitRest

NextMulti ==
    \/ \E t \in Threads :
          \/ \E m \in alive : \E a \in FewArgs(m) : AllReleased /\ FfiEnter(t, a)
          \/ MethodStep(t)
          \/ FfiUnlock(t)
          \/ FfiReturn(t)
          \/ FreeString(t)
    \/ \E m \in Managers : ManagerCreate(m) \/ ManagerDestroy(m)

\* Host threads calling the adapters the host constructs and destroys; every
\* write to the file succeeds, and the host releases a string before the
\* next call starts.
SpecMulti == InitFew /\ [][NextMulti]_vars

\* The steps of thread t once it is in an entry point.
EntryStep(t) ==
    \/ MethodStep(t)
    \/ FailStep(t)
    \/ FfiUnlock(t)
    \/ FfiReturn(t)

\* The calls of one adapter: the entries with arguments in A, their steps
\* with the writes that fail, and the release of a string.
NextCalls(A) ==
    \E t \in Threads :
        \/ \E a \in A : FfiEnter(t, a)
        \/ EntryStep(t)
        \/ FreeString(t)

\* The calls of the runs with failing writes: those, and the add of a
\* second name.
SaveArgs == FewArgs("m1") \cup {Args("add", "m1", CStr(<<>>), CStr(<<>>))}

NextSave == NextCalls(SaveArgs)

\* Host threads calling one adapter; a write to the file can fail.
SpecSave == InitFew /\ [][NextSave]_vars

NextLive == NextCalls(FewArgs("m1"))

\* Every thread in an entry point goes on running, every write to the file
\* ends (well or not), and a thread that waits for the Mutex gets it.
Fairness ==
    \A t \in Threads :
        /\ WF_vars(EntryStep(t))
        /\ SF_vars(Acquire(t))

\* Host threads calling one adapter, under that fairness.
SpecLive == InitFew /\ [][NextLive]_vars /\ Fairness

(***************************************************************************)
(* Properties.                                                             *)
(***************************************************************************)
\* The thread has run its call to the end and is about to return ret[t].
Returning(t) == pc[t] = "unlock"

\* The store of the adapter thread t is calling.
Store(t) == registers[op[t].mgr]

\* The file holds a document that decodes to the store `regs`.
Persisted(regs) ==
    /\ file.exists
    /\ FromStr(file.text).ok
    /\ FromStr(file.text).registers = regs

\* C1: with every write succeeding, whenever no call holds the lock of an
\* adapter and a mutating call on it has returned true, the file holds a
\* document that decodes to exactly the adapter's in-memory mapping.
C1_FileMirrorsStore ==
    \A m \in alive :
        (lock[m] = NoThread /\ m \in everTrue) => Persisted(registers[m])

\* C1 witness: an adapter that started from an unparseable file, after an
\* add, a content update and a remove, with its one register in the file.
C1_Witness ==
    /\ lock["m1"] = NoThread
    /\ "m1" \in everTrue
    /\ hist["m1"].start = "unparseable"
    /\ hist["m1"].removed # {}
    /\ \E n \in DOMAIN registers["m1"] : registers["m1"][n].content # <<>>
    /\ Persisted(registers["m1"])

\* C2: in every interleaving, each call returns what it returns when the
\* calls are run one at a time in the order they took the lock, and with no
\* call in progress the mapping is the one that sequential run leaves.
C2_Serializable ==
    /\ \A t \in Threads : Returning(t) => SameResult(ret[t], expect[t])
    /\ \A m \in alive : lock[m] = NoThread => registers[m] = shadow[m]

\* C2 witness: a second add of a name another call has added returns false.
C2_Witness ==
    \E t \in Threads :
        /\ Returning(t)
        /\ op[t].kind = "add"
        /\ ret[t] = RetBool(FALSE)
        /\ hpre[t].start = "missing"
        /\ op[t].name \in hpre[t].live

\* C3: a call that changed the store returns true and leaves the change in
\* memory, whether save_to_disk returned Ok or Err.
C3_SaveResultIgnored ==
    \A t \in Threads :
        (Returning(t) /\ io[t] # "none") =>
            /\ op[t].kind \in MutatingKinds
            /\ ret[t] = RetBool(TRUE)
            /\ Sequential(pre[t], op[t]).ret = RetBool(TRUE)
            /\ Store(t) = Sequential(pre[t], op[t]).registers

\* C3 witness: an add whose write failed has returned true, the register is
\* in memory and the file does not hold it.
C3_Witness ==
    \E t \in Threads :
        /\ Returning(t)
        /\ io[t] = "Err"
        /\ op[t].kind = "add"
        /\ ret[t] = RetBool(TRUE)
        /\ ContainsKey(Store(t), op[t].name)
        /\ ~Persisted(Store(t))

\* C4: an add of a name that is not in the mapping returns true and leaves
\* the name in the mapping with the given shortcut and empty content, so
\* that a lookup of its content gives the empty string.
C4_AddAbsent ==
    \A t \in Threads :
        (Returning(t) /\ op[t].kind = "add" /\ ~ContainsKey(pre[t], op[t].name)) =>
            /\ ret[t] = RetBool(TRUE)
            /\ ContainsKey(Store(t), op[t].name)
            /\ Store(t)[op[t].name] = ClipboardRegister(<<>>, op[t].arg)
            /\ GetRegisterContent(Store(t), op[t].name).ret = RetSome(<<>>)

\* C4 witness: a name that was added, given content and removed in this run
\* is added again, and its content is empty.
C4_Witness ==
    \E t \in Threads :
        /\ Returning(t)
        /\ op[t].kind = "add"
        /\ hpre[t].start = "missing"
        /\ op[t].name \in hpre[t].dirty
        /\ op[t].arg # <<>>
        /\ ret[t] = RetBool(TRUE)
        /\ Store(t)[op[t].name].content = <<>>

\* C5: an add of a name that is in the mapping returns false and leaves the
\* whole mapping as it was, without a save.
C5_AddPresent ==
    \A t \in Threads :
        (Returning(t) /\ op[t].kind = "add" /\ ContainsKey(pre[t], op[t].name)) =>
            /\ ret[t] = RetBool(FALSE)
            /\ Store(t) = pre[t]
            /\ io[t] = "none"

\* C5 witness: the add names a register that has content and another
\* shortcut, beside a second register.
C5_Witness ==
    \E t \in Threads :
        /\ Returning(t)
        /\ op[t].kind = "add"
        /\ ContainsKey(pre[t], op[t].name)
        /\ pre[t][op[t].name].content # <<>>
        /\ pre[t][op[t].name].shortcut # op[t].arg
        /\ Cardinality(DOMAIN Store(t)) = 2
        /\ ret[t] = RetBool(FALSE)

\* C6: update_content and update_shortcut of a name that is not in the
\* mapping return false, create no register and leave the mapping as it was.
C6_UpdateAbsent ==
    \A t \in Threads :
        (/\ Returning(t)
         /\ op[t].kind \in {"update_content", "update_shortcut"}
         /\ ~ContainsKey(pre[t], op[t].name)) =>
            /\ ret[t] = RetBool(FALSE)
            /\ ~ContainsKey(Store(t), op[t].name)
            /\ Store(t) = pre[t]
            /\ io[t] = "none"

\* C6 witness: a content update of an absent name beside a present register.
C6_Witness ==
    \E t \in Threads :
        /\ Returning(t)
        /\ op[t].kind = "update_content"
        /\ op[t].arg # <<>>
        /\ ~ContainsKey(pre[t], op[t].name)
        /\ DOMAIN pre[t] # {}
        /\ ret[t] = RetBool(FALSE)

\* C7: remove returns true exactly when the name is in the mapping and then
\* deletes that register only; a name removed and not added since is absent,
\* so that a further remove returns false and a lookup returns None.
C7_Remove ==
    /\ \A t \in Threads :
          (Returning(t) /\ op[t].kind = "remove") =>
              /\ ret[t] = RetBool(ContainsKey(pre[t], op[t].name))
              /\ Store(t) = Remove(pre[t], op[t].name)
              /\ op[t].name \in hpre[t].removed => ret[t] = RetBool(FALSE)
    /\ \A t \in Threads :
          (Returning(t) /\ op[t].kind = "get" /\ op[t].name \in hpre[t].removed) =>
              ret[t] = RetNone
    /\ \A m \in alive :
          lock[m] = NoThread =>
              \A n \in hist[m].removed : ~ContainsKey(registers[m], n)

\* C7 witness: the second remove of a name, beside another register.
C7_Witness ==
    \E t \in Threads :
        /\ Returning(t)
        /\ op[t].kind = "remove"
        /\ op[t].name \in hpre[t].removed
        /\ DOMAIN Store(t) # {}
        /\ ret[t] = RetBool(FALSE)

\* C8: the content of every register in the mapping is the content of the
\* last update_content of it that returned true since it was added (empty
\* when there was none), and get_content returns that content.
C8_LastWriteWins ==
    /\ \A m \in alive :
          \A n \in DOMAIN registers[m] : registers[m][n].content = hist[m].last[n]
    /\ \A t \in Threads :
          (Returning(t) /\ op[t].kind = "get" /\ ContainsKey(pre[t], op[t].name)) =>
              ret[t] = RetSome(hist[op[t].mgr].last[op[t].name])

\* C8 witness: a lookup returns the non-empty content written in this run,
\* beside a register with other content.
C8_Witness ==
    \E t \in Threads :
        /\ Returning(t)
        /\ op[t].kind = "get"
        /\ hpre[t].start = "missing"
        /\ ret[t].tag = "some" /\ ret[t].s # <<>>
        /\ \E n \in DOMAIN Store(t) : Store(t)[n].content = <<>>

\* C9: list_all returns one entry for every name added and not removed
\* since, no other entry, and each entry holds the content and the shortcut
\* the register has.
C9_ListAll ==
    \A t \in Threads :
        (Returning(t) /\ op[t].kind = "list") =>
            LET entries == ret[t].list
                live == hist[op[t].mgr].live
            IN /\ ret[t].tag = "json"
               /\ Len(entries) = Cardinality(live)
               /\ {Unescape(entries[i].key) : i \in DOMAIN entries} = live
               /\ \A i \in DOMAIN entries :
                     LET n == Unescape(entries[i].key)
                     IN /\ WellEscaped(entries[i].key)
                        /\ WellEscaped(entries[i].content)
                        /\ WellEscaped(entries[i].shortcut)
                        /\ ContainsKey(Store(t), n)
                        /\ Unescape(entries[i].content) = Store(t)[n].content
                        /\ Unescape(entries[i].shortcut) = Store(t)[n].shortcut

\* C9 witness: after two adds and a remove in this run the listing holds
\* the one register left.
C9_Witness ==
    \E t \in Threads :
        /\ Returning(t)
        /\ op[t].kind = "list"
        /\ hpre[t].start = "missing"
        /\ hpre[t].removed # {}
        /\ Len(ret[t].list) = 1
        /\ ret[t].list[1].content # <<>>

\* The load that follows a successful save returns the saved store.
LoadReturnsSaved ==
    rt.phase \in {"loaded", "resaved"} => (rt.loadOk /\ rt.loaded = rt.store)

\* Two documents hold the same members, in any order.
SameMembers(d1, d2) ==
    /\ d1.closed = d2.closed
    /\ Len(d1.members) = Len(d2.members)
    /\ {d1.members[i] : i \in DOMAIN d1.members} = {d2.members[i] : i \in DOMAIN d2.members}

\* C10, as amended: a successful save followed by a load returns a store with
\* the same names and the same content and shortcut for each; saving the
\* loaded store writes a document with the same members as the first, in an
\* order that can differ (the same document when the store holds at most one
\* register).
C10_RoundTrip ==
    /\ LoadReturnsSaved
    /\ rt.phase = "resaved" =>
          /\ file.exists
          /\ SameMembers(file.text, rt.doc)
          /\ FromStr(file.text) = FromStr(rt.doc)
          /\ Cardinality(DOMAIN rt.store) <= 1 => file.text = rt.doc

\* C10 witness: a store of two registers, one with empty content and one
\* with a backslash in its content, saved, loaded and saved again with its
\* members in the other order.
C10_Witness ==
    /\ rt.phase = "resaved"
    /\ Cardinality(DOMAIN rt.store) = 2
    /\ \E n \in DOMAIN rt.store : rt.store[n].content = <<>>
    /\ \E n \in DOMAIN rt.store : \E i \in DOMAIN rt.store[n].content :
          rt.store[n].content[i] = BSLASH
    /\ rt.loaded = rt.store
    /\ file.text # rt.doc

\* C10 as stated: the load returns the saved store, and saving the loaded
\* store produces the same document.
C10_SameDocument ==
    /\ LoadReturnsSaved
    /\ rt.phase = "resaved" => file.text = rt.doc

\* The adapter is as its construction left it: no call holds its lock and
\* no mutating call on it has returned true.
Untouched(m) == lock[m] = NoThread /\ m \notin everTrue

\* C11: load_from_disk of a file that does not exist returns Ok with an
\* empty store, so an adapter constructed when there is no file has an
\* empty mapping until a call changes it.
C11_FreshInstall ==
    \A m \in alive :
        hist[m].start = "missing" =>
            /\ hist[m].loadOk
            /\ Untouched(m) => registers[m] = EmptyRegisters

\* C11 witness: a second adapter constructed while there is still no file,
\* the first adapter holding a register it has not written yet; the new
\* adapter is empty.
C11_Witness ==
    /\ "m2" \in alive
    /\ hist["m2"].start = "missing"
    /\ hist["m2"].loadOk
    /\ Untouched("m2")
    /\ registers["m2"] = EmptyRegisters
    /\ "m1" \in alive
    /\ DOMAIN registers["m1"] # {}
    /\ ~file.exists

\* C12: when the file exists and does not parse, load_from_disk returns an
\* error and the construction completes all the same: the process runs on,
\* the adapter has an empty mapping until a call changes it, and every call
\* on it returns what it returns on a store run alone.
C12_CorruptFile ==
    /\ \A m \in alive :
          hist[m].start = "unparseable" =>
              /\ ~hist[m].loadOk
              /\ process = "running"
              /\ Untouched(m) => registers[m] = EmptyRegisters
    /\ \A t \in Threads :
          (Returning(t) /\ hpre[t].start = "unparseable") =>
              /\ SameResult(ret[t], Sequential(pre[t], op[t]).ret)
              /\ Store(t) = Sequential(pre[t], op[t]).registers

\* C12 witness: an adapter constructed from a file that does not parse has
\* added a register, and a content update of it returns true.
C12_Witness ==
    \E t \in Threads :
        /\ Returning(t)
        /\ op[t].mgr = "m2"
        /\ hpre[t].start = "unparseable"
        /\ ~hpre[t].loadOk
        /\ op[t].kind = "update_content"
        /\ ret[t] = RetBool(TRUE)
        /\ Store(t)[op[t].name].content # <<>>

\* The thread is inside a store operation: it holds a Mutex and reads or
\* changes a store, or writes the file.
InStore(t) == pc[t] \in {"body", "insert", "save", "create", "write", "unlock"}

\* C13, as stated: at every moment at most one thread is inside a store
\* operation, whatever adapters the threads call.
C13_ProcessWide == Cardinality({t \in Threads : InStore(t)}) <= 1

\* C14, as stated: a load_from_disk that runs while a save is under way (the
\* construction of an adapter while a thread is in save_to_disk), after an
\* earlier save has written a document, returns Ok with a complete document.
C14_AtomicReplace ==
    [][\A m \in Managers :
          (/\ m \notin alive
           /\ m \in alive'
           /\ everTrue # {}
           /\ \E t \in Threads : pc[t] \in {"create", "write"}) =>
              /\ hist'[m].loadOk
              /\ hist'[m].start = "document"]_vars

\* C15, as stated: the get-content entry point returns a handle of the
\* register's content when the register exists, and null only when no
\* register has that name.
C15_GetContent ==
    \A t \in Threads :
        (pc[t] = "return" /\ op[t].kind = "get") =>
            IF ContainsKey(pre[t], op[t].name)
            THEN out[t] = OutString(pre[t][op[t].name].content)
            ELSE out[t] = OutNull

\* C16: a step changes the file only as the one save of a mutating call
\* that returns true (so not a lookup, a listing, a construction, a
\* destruction or a string release), and a call saves exactly when it is a
\* mutating call that returns true.
C16_FileWrites ==
    /\ [][file' # file =>
            \E t \in Threads :
                /\ pc[t] \in {"create", "write"}
                /\ pc'[t] # pc[t]
                /\ io[t] = "none"
                /\ op[t].kind \in MutatingKinds
                /\ Sequential(pre[t], op[t]).ret = RetBool(TRUE)]_vars
    /\ [](\A t \in Threads :
            pc[t] = "return" =>
                (io[t] # "none" <=> (op[t].kind \in MutatingKinds /\ out[t] = OutInt(1))))

\* C16 witness: beside a second adapter, a mutating call has returned false
\* without a save while the file holds a document.
C16_Witness ==
    \E t \in Threads :
        /\ pc[t] = "return"
        /\ op[t].kind \in MutatingKinds
        /\ out[t] = OutInt(0)
        /\ io[t] = "none"
        /\ alive = Managers
        /\ file.exists
        /\ FromStr(file.text).ok

\* The pointer holds bytes that are not UTF-8.
Undecodable(p) == ~p.null /\ ~IsUtf8(p.bytes)

\* The arguments with every undecodable string replaced by the empty one.
WithEmpty(a) ==
    [a EXCEPT !.name = IF Undecodable(@) THEN CStr(<<>>) ELSE @,
              !.arg = IF Undecodable(@) THEN CStr(<<>>) ELSE @]

\* C17: a call with an undecodable name, shortcut or content returns what
\* the same call with the empty string in its place returns and leaves the
\* store that call leaves; so an add with an undecodable name returns 0 when
\* the register "" exists, and lookups, updates and removes act on it.
C17_Undecodable ==
    \A t \in Threads :
        (pc[t] = "return" /\ TakesName(op[t].kind)) =>
            LET same == Sequential(pre[t], Decode(WithEmpty(args[t])))
            IN /\ out[t] = ToCResult(same.ret)
               /\ registers[op[t].mgr] = same.registers
               /\ Undecodable(args[t].name) =>
                     /\ op[t].name = <<>>
                     /\ (op[t].kind = "add" /\ ContainsKey(pre[t], <<>>)) =>
                            out[t] = OutInt(0)

\* C17 witness: the register "" was added in this run, which only an add
\* with an undecodable name does, and an add with the undecodable name xFF
\* returns 0.
C17_Witness ==
    \E t \in Threads :
        /\ pc[t] = "return"
        /\ op[t].kind = "add"
        /\ args[t].name = CStr(<<"xFF">>)
        /\ hpre[t].start = "missing"
        /\ ContainsKey(pre[t], <<>>)
        /\ out[t] = OutInt(0)

\* C18: a call with a null adapter or a null string fails its assertion
\* before it takes a lock: the step leaves every store, the file, every
\* lock and the thread's value as they were, and the thread never holds a
\* lock or a value afterwards.
C18_NullArguments ==
    /\ [][\A t \in Threads :
            (pc[t] = "idle" /\ pc'[t] # "idle" /\ ~Asserted(args'[t])) =>
                /\ pc'[t] = "panicked"
                /\ UNCHANGED <<registers, file, lock>>
                /\ out'[t] = NoOut]_vars
    /\ [](\A t \in Threads :
            /\ pc[t] = "panicked" =>
                  /\ ~Asserted(args[t])
                  /\ out[t] = NoOut
                  /\ \A m \in Managers : lock[m] # t
            /\ pc[t] \notin {"idle", "panicked"} => Asserted(args[t]))

\* C18 witness: an add with a null name has failed, and afterwards another
\* thread's call on the same adapter has taken the lock and returned 1.
C18_Witness ==
    \E t, u \in Threads :
        /\ pc[t] = "panicked"
        /\ args[t].kind = "add"
        /\ args[t].mgr = "m1"
        /\ args[t].name.null
        /\ process = "running"
        /\ pc[u] = "return"
        /\ out[u] = OutInt(1)

\* C19: whenever a mutating call's write has succeeded, the document in the
\* file decodes to the entire in-memory mapping, whatever writes failed
\* before it.
C19_SelfHealing ==
    \A t \in Threads :
        (Returning(t) /\ io[t] = "Ok") => Persisted(Store(t))

\* C19 witness: the add of one register has returned with its write failed;
\* the next call, which began from the store that add left, has changed
\* another register and its write has succeeded: the file holds both.
C19_Witness ==
    \E t, u \in Threads :
        /\ pc[u] = "return"
        /\ io[u] = "Err"
        /\ op[u].kind = "add"
        /\ Returning(t)
        /\ io[t] = "Ok"
        /\ op[t].name # op[u].name
        /\ pre[t] = Sequential(pre[u], op[u]).registers
        /\ ContainsKey(Store(t), op[u].name)
        /\ ContainsKey(FromStr(file.text).registers, op[u].name)
        /\ Persisted(Store(t))

\* C20: no call in progress on an adapter means its lock is free, and
\* under the fairness of SpecLive every call that has entered returns.
C20_NoDeadlock ==
    /\ [](\A m \in Managers :
            (\A t \in Threads : ~InStore(t) \/ op[t].mgr # m) => lock[m] = NoThread)
    /\ \A t \in Threads : (pc[t] = "wait") ~> (pc[t] = "idle")

\* C20 witness: a call that returned false and a call whose write failed
\* have both left the lock free.
C20_Witness ==
    \E t, u \in Threads :
        /\ pc[t] = "return"
        /\ io[t] = "Err"
        /\ pc[u] = "return"
        /\ out[u] = OutInt(0)
        /\ lock["m1"] = NoThread

====
